---- MODULE Spec2Model ----
(***************************************************************************)
(* Model of the team generator of App.py: player scoring, the greedy      *)
(* position assignment, the roster and complementarity checks, the        *)
(* randomised search of generate_teams and the persisted match history.   *)
(*                                                                         *)
(* Scores are Python floats in the source.  They are modelled exactly as  *)
(* integers in units of 1/SCALE, so that every weight and threshold of    *)
(* the source is an integer multiple of the unit.                         *)
(***************************************************************************)
EXTENDS Integers, Sequences, FiniteSets, TLC

\* ------------------------------------------------------------------------
\* Configuration (App.py lines 11-48)
\* ------------------------------------------------------------------------
SCALE == 20 * 2520

TEAM_SIZE == 7

COMPOSITION == [gardien |-> 1, defenseur |-> 2, milieu |-> 3, attaquant |-> 1]

MAX_HISTORY == 5

SEUIL_ELITE == 10 * SCALE

SEUIL_FAIBLE == 7 * SCALE

SEUIL_FAIBLE_POSTE == (15 * SCALE) \div 2

POIDS ==
  [leader |-> (3 * SCALE) \div 10,
   individualite |-> (15 * SCALE) \div 100,
   condition |-> (2 * SCALE) \div 10,
   synergie |-> 2 * SCALE,
   anti_synergie_meme_poste |-> 5 * SCALE,
   repetition |-> SCALE \div 10]

CONTRAINTES ==
  [elite_min |-> 1, elite_max |-> 3,
   faible_min |-> 1, faible_max |-> 3,
   leadership_min |-> 12, leadership_max |-> 35,
   individualite_min |-> 20, individualite_max |-> 50,
   condition_min |-> 25]

COMPLEMENTARITE ==
  [max_faibles_par_ligne |-> 1,
   max_faibles_par_poste |-> 1,
   min_score_ligne_defense |-> 14 * SCALE,
   min_score_ligne_milieu |-> 20 * SCALE,
   bonus_ligne_equilibree |-> (15 * SCALE) \div 10]

\* ------------------------------------------------------------------------
\* Generic helpers standing for Python built-ins
\* ------------------------------------------------------------------------
RECURSIVE SumTo(_, _)
SumTo(s, n) == IF n = 0 THEN 0 ELSE s[n] + SumTo(s, n - 1)

\* sum(s)
SumSeq(s) == SumTo(s, Len(s))

\* list.index(x): the first index holding x
IndexOf(s, x) == CHOOSE i \in 1..Len(s) : s[i] = x /\ \A k \in 1..(i - 1) : s[k] # x

InSeq(s, x) == \E i \in 1..Len(s) : s[i] = x

Abs(x) == IF x < 0 THEN -x ELSE x

\* ------------------------------------------------------------------------
\* Player scoring (App.py lines 71-91)
\* ------------------------------------------------------------------------
score_joueur(joueur, poste) ==
  IF ~InSeq(joueur.poste, poste)
  THEN -10 * SCALE
  ELSE joueur.niveau[IndexOf(joueur.poste, poste)] * SCALE
       + joueur.leader * POIDS.leader
       + joueur.individualite * POIDS.individualite
       + joueur.condition * POIDS.condition

score_global_joueur(joueur) ==
  LET scores == [i \in 1..Len(joueur.poste) |-> score_joueur(joueur, joueur.poste[i])]
  IN IF Len(scores) > 0 THEN SumSeq(scores) \div Len(scores) ELSE 0

categoriser_joueur(joueur) ==
  LET score == score_global_joueur(joueur)
  IN IF score >= SEUIL_ELITE THEN "elite"
     ELSE IF score < SEUIL_FAIBLE THEN "faible"
     ELSE "moyen"

\* ------------------------------------------------------------------------
\* Greedy position assignment (App.py lines 222-246)
\* ------------------------------------------------------------------------
\* preferences of lines 227-231: one tuple per (player, capability)
RECURSIVE PrefsOf(_, _)
PrefsOf(joueur, i) ==
  IF i > Len(joueur.poste) THEN <<>>
  ELSE <<[joueur |-> joueur, poste |-> joueur.poste[i],
          score |-> score_joueur(joueur, joueur.poste[i]), prio |-> i - 1]>>
       \o PrefsOf(joueur, i + 1)

RECURSIVE BuildPreferences(_)
BuildPreferences(dispo) ==
  IF dispo = <<>> THEN <<>>
  ELSE PrefsOf(Head(dispo), 1) \o BuildPreferences(Tail(dispo))

\* key of line 233: (-score, prio), compared lexicographically
KeyLess(a, b) == a.score > b.score \/ (a.score = b.score /\ a.prio < b.prio)

\* insertion keeping equal keys in their original order (list.sort is stable)
RECURSIVE InsertSorted(_, _)
InsertSorted(sorted, x) ==
  IF sorted = <<>> THEN <<x>>
  ELSE IF KeyLess(x, Head(sorted)) THEN <<x>> \o sorted
  ELSE <<Head(sorted)>> \o InsertSorted(Tail(sorted), x)

RECURSIVE SortPreferences(_)
SortPreferences(prefs) ==
  IF prefs = <<>> THEN <<>>
  ELSE InsertSorted(SortPreferences(SubSeq(prefs, 1, Len(prefs) - 1)), prefs[Len(prefs)])

\* postes_restants.get(poste, 0)
Restant(postes_restants, poste) ==
  IF poste \in DOMAIN postes_restants THEN postes_restants[poste] ELSE 0

\* state of the walk before the loop of line 236
WalkInit ==
  [i |-> 1, postes_restants |-> COMPOSITION, joueurs_assignes |-> <<>>,
   joueurs_utilises |-> {}, stop |-> FALSE]

WalkDone(w, prefs) == w.stop \/ w.i > Len(prefs)

\* WalkStep without the test of line 237
WalkStepSansUtilises(w, prefs, une_equipe) ==
  LET t == prefs[w.i]
  IN IF Restant(w.postes_restants, t.poste) > 0
     THEN [i |-> w.i + 1,
           postes_restants |-> [w.postes_restants EXCEPT ![t.poste] = @ - 1],
           joueurs_assignes |-> Append(w.joueurs_assignes, <<t.joueur, t.poste>>),
           joueurs_utilises |-> w.joueurs_utilises \cup {t.joueur.nom},
           stop |-> Cardinality(w.joueurs_utilises \cup {t.joueur.nom}) = Len(une_equipe)]
     ELSE [w EXCEPT !.i = @ + 1,
                    !.stop = Cardinality(w.joueurs_utilises) = Len(une_equipe)]

\* one iteration of the loop of lines 236-244
WalkStep(w, prefs, une_equipe) ==
  LET t == prefs[w.i]
  IN IF t.joueur.nom \in w.joueurs_utilises
     THEN [w EXCEPT !.i = @ + 1]
     ELSE IF Restant(w.postes_restants, t.poste) > 0
     THEN [i |-> w.i + 1,
           postes_restants |-> [w.postes_restants EXCEPT ![t.poste] = @ - 1],
           joueurs_assignes |-> Append(w.joueurs_assignes, <<t.joueur, t.poste>>),
           joueurs_utilises |-> w.joueurs_utilises \cup {t.joueur.nom},
           stop |-> Cardinality(w.joueurs_utilises \cup {t.joueur.nom}) = Len(une_equipe)]
     ELSE [w EXCEPT !.i = @ + 1,
                    !.stop = Cardinality(w.joueurs_utilises) = Len(une_equipe)]

RECURSIVE RunWalk(_, _, _)
RunWalk(w, prefs, une_equipe) ==
  IF WalkDone(w, prefs) THEN w ELSE RunWalk(WalkStep(w, prefs, une_equipe), prefs, une_equipe)

affecter_postes_optimaux(une_equipe) ==
  RunWalk(WalkInit, SortPreferences(BuildPreferences(une_equipe)), une_equipe).joueurs_assignes

\* ------------------------------------------------------------------------
\* Roster constraints (App.py lines 248-265)
\* ------------------------------------------------------------------------
CountCat(une_equipe, cat) ==
  Cardinality({i \in 1..Len(une_equipe) : categoriser_joueur(une_equipe[i]) = cat})

\* lines 255-265, on the five totals of lines 249-253
VerdictContraintes(nb_elite, nb_faible, total_leadership, total_individualite, total_condition) ==
     IF nb_elite < CONTRAINTES.elite_min \/ nb_elite > CONTRAINTES.elite_max
     THEN <<FALSE, "Elite">>
     ELSE IF nb_faible < CONTRAINTES.faible_min \/ nb_faible > CONTRAINTES.faible_max
     THEN <<FALSE, "Faible">>
     ELSE IF total_leadership < CONTRAINTES.leadership_min
             \/ total_leadership > CONTRAINTES.leadership_max
     THEN <<FALSE, "Leadership">>
     ELSE IF total_individualite < CONTRAINTES.individualite_min
             \/ total_individualite > CONTRAINTES.individualite_max
     THEN <<FALSE, "Individualite">>
     ELSE IF total_condition < CONTRAINTES.condition_min
     THEN <<FALSE, "Condition">>
     ELSE <<TRUE, "OK">>

verifier_contraintes(une_equipe) ==
  VerdictContraintes(CountCat(une_equipe, "elite"),
                     CountCat(une_equipe, "faible"),
                     SumSeq([i \in 1..Len(une_equipe) |-> une_equipe[i].leader]),
                     SumSeq([i \in 1..Len(une_equipe) |-> une_equipe[i].individualite]),
                     SumSeq([i \in 1..Len(une_equipe) |-> une_equipe[i].condition]))

\* ------------------------------------------------------------------------
\* Complementarity constraints (App.py lines 267-301)
\* ------------------------------------------------------------------------
\* scores of the players assigned to a position, in assignment order
RECURSIVE ScoresAuPoste(_, _)
ScoresAuPoste(joueurs_assignes, poste) ==
  IF joueurs_assignes = <<>> THEN <<>>
  ELSE LET h == Head(joueurs_assignes)
       IN (IF h[2] = poste THEN <<score_joueur(h[1], h[2])>> ELSE <<>>)
          \o ScoresAuPoste(Tail(joueurs_assignes), poste)

\* keys of the dict par_poste, in insertion order
RECURSIVE PostesVus(_, _)
PostesVus(joueurs_assignes, vus) ==
  IF joueurs_assignes = <<>> THEN vus
  ELSE LET p == Head(joueurs_assignes)[2]
       IN PostesVus(Tail(joueurs_assignes), IF InSeq(vus, p) THEN vus ELSE Append(vus, p))

NbFaiblesPoste(scores) ==
  Cardinality({i \in 1..Len(scores) : scores[i] <= SEUIL_FAIBLE_POSTE})

\* loop of lines 284-289: the first position, in dict order, that is too weak
RECURSIVE PremierPosteFaible(_, _)
PremierPosteFaible(joueurs_assignes, postes) ==
  IF postes = <<>> THEN "aucun"
  ELSE IF Head(postes) # "gardien"
          /\ NbFaiblesPoste(ScoresAuPoste(joueurs_assignes, Head(postes))) > 1
  THEN Head(postes)
  ELSE PremierPosteFaible(joueurs_assignes, Tail(postes))

\* lines 284-301, on the lines built at lines 271-282
VerdictComplementarite(faible, defense, milieu) ==
     IF faible # "aucun"
     THEN <<FALSE, "Poste trop faible", faible>>
     ELSE IF defense # <<>> /\ SumSeq(defense) < COMPLEMENTARITE.min_score_ligne_defense
     THEN <<FALSE, "Defense insuffisante", "">>
     ELSE IF milieu # <<>> /\ SumSeq(milieu) < COMPLEMENTARITE.min_score_ligne_milieu
     THEN <<FALSE, "Milieu insuffisant", "">>
     ELSE <<TRUE, "OK", "">>

verifier_contraintes_complementarite(joueurs_assignes) ==
  VerdictComplementarite(
    PremierPosteFaible(joueurs_assignes, PostesVus(joueurs_assignes, <<>>)),
    ScoresAuPoste(joueurs_assignes, "defenseur"),
    ScoresAuPoste(joueurs_assignes, "milieu"))

\* ------------------------------------------------------------------------
\* History penalty, synergies, line analysis, team score (App.py 123-220, 303-339)
\* ------------------------------------------------------------------------
NomsDe(noms) == {noms[i] : i \in 1..Len(noms)}

\* recency_factor = 1.5 - i / len(historique), for the entry at reverse index i;
\* the term of one entry is overlap * POIDS.repetition * recency_factor (* 2)
PenaliteEntree(overlap, n, i) ==
  LET terme == (overlap * POIDS.repetition * (3 * n - 2 * i)) \div (2 * n)
  IN IF overlap >= 5 THEN 2 * terme ELSE terme

RECURSIVE PenaliteEntrees(_, _, _)
PenaliteEntrees(equipe_set, un_historique, i) ==
  IF i >= Len(un_historique) THEN 0
  ELSE PenaliteEntree(Cardinality(equipe_set \cap NomsDe(un_historique[Len(un_historique) - i])),
                      Len(un_historique), i)
       + PenaliteEntrees(equipe_set, un_historique, i + 1)

similarite_avec_anciens_matchs(noms, un_historique) ==
  IF un_historique = <<>> THEN 0 ELSE PenaliteEntrees(NomsDe(noms), un_historique, 0)

calc_synergies(noms, synergies) ==
  Cardinality({k \in 1..Len(synergies) :
                 \A m \in 1..Len(synergies[k]) : synergies[k][m] \in NomsDe(noms)})
    * POIDS.synergie

\* names of the players assigned to a position
NomsAuPoste(joueurs_assignes, poste) ==
  {joueurs_assignes[i][1].nom : i \in {k \in 1..Len(joueurs_assignes) : joueurs_assignes[k][2] = poste}}

NbAuPoste(joueurs_assignes, poste) ==
  Cardinality({k \in 1..Len(joueurs_assignes) : joueurs_assignes[k][2] = poste})

verifier_anti_synergies_meme_poste(joueurs_assignes, anti_synergies) ==
  LET postes == {joueurs_assignes[i][2] : i \in 1..Len(joueurs_assignes)}
      touche(poste) ==
        IF NbAuPoste(joueurs_assignes, poste) >= 2
        THEN Cardinality({k \in 1..Len(anti_synergies) :
               \A m \in 1..Len(anti_synergies[k]) :
                  anti_synergies[k][m] \in NomsAuPoste(joueurs_assignes, poste)})
        ELSE 0
      RECURSIVE Somme(_)
      Somme(ps) == IF ps = {} THEN 0
                   ELSE LET x == CHOOSE y \in ps : TRUE IN touche(x) + Somme(ps \ {x})
  IN Somme(postes) * POIDS.anti_synergie_meme_poste

SeqMax(s) == CHOOSE x \in {s[i] : i \in 1..Len(s)} : \A i \in 1..Len(s) : s[i] <= x

SeqMin(s) == CHOOSE x \in {s[i] : i \in 1..Len(s)} : \A i \in 1..Len(s) : s[i] >= x

\* contribution of one non-goalkeeper line: <<bonus, penalty>> (lines 190-211)
AnalyseLigneDe(ligne, scores, total_score) ==
    LET nb_faibles == Cardinality({i \in 1..Len(scores) : scores[i] < 7 * SCALE})
        pen_faibles ==
          IF nb_faibles > COMPLEMENTARITE.max_faibles_par_ligne
          THEN 3 * SCALE * (nb_faibles - COMPLEMENTARITE.max_faibles_par_ligne) ELSE 0
        pen_ligne ==
          IF ligne = "defense" /\ total_score < COMPLEMENTARITE.min_score_ligne_defense
          THEN (COMPLEMENTARITE.min_score_ligne_defense - total_score) \div 2
          ELSE IF ligne = "milieu" /\ total_score < COMPLEMENTARITE.min_score_ligne_milieu
          THEN (COMPLEMENTARITE.min_score_ligne_milieu - total_score) \div 2
          ELSE 0
        bonus ==
          IF Len(scores) >= 2 /\ SeqMax(scores) - SeqMin(scores) >= 2 * SCALE
                              /\ SeqMax(scores) - SeqMin(scores) <= 5 * SCALE
          THEN COMPLEMENTARITE.bonus_ligne_equilibree ELSE 0
    IN <<bonus, pen_faibles + pen_ligne>>

AnalyseLigne(ligne, scores) ==
  IF scores = <<>> THEN <<0, 0>> ELSE AnalyseLigneDe(ligne, scores, SumSeq(scores))

\* penalty of lines 183-188 for one position
PenalitePoste(joueurs_assignes, poste) ==
  LET nb_faibles == NbFaiblesPoste(ScoresAuPoste(joueurs_assignes, poste))
  IN IF poste # "gardien" /\ nb_faibles > 1 THEN 20 * SCALE * nb_faibles ELSE 0

\* first component of the result: bonus - penalty
analyser_complementarite_postes(joueurs_assignes) ==
  LET postes == {joueurs_assignes[i][2] : i \in 1..Len(joueurs_assignes)}
      RECURSIVE Somme(_)
      Somme(ps) == IF ps = {} THEN 0
                   ELSE LET x == CHOOSE y \in ps : TRUE
                        IN PenalitePoste(joueurs_assignes, x) + Somme(ps \ {x})
      Net(d, m, a) == (d[1] + m[1] + a[1]) - (Somme(postes) + d[2] + m[2] + a[2])
  IN Net(AnalyseLigne("defense", ScoresAuPoste(joueurs_assignes, "defenseur")),
         AnalyseLigne("milieu", ScoresAuPoste(joueurs_assignes, "milieu")),
         AnalyseLigne("attaque", ScoresAuPoste(joueurs_assignes, "attaquant")))

\* lines 305-339: the fields of the details record that generate_teams reads
DetailsEquipe(une_equipe, joueurs_choisis, un_historique, synergies, anti_synergies) ==
  LET total_score == SumSeq([i \in 1..Len(joueurs_choisis) |->
                               score_joueur(joueurs_choisis[i][1], joueurs_choisis[i][2])])
      noms == [i \in 1..Len(joueurs_choisis) |-> joueurs_choisis[i][1].nom]
      total == total_score + calc_synergies(noms, synergies)
               + analyser_complementarite_postes(joueurs_choisis)
               - verifier_anti_synergies_meme_poste(joueurs_choisis, anti_synergies)
               - similarite_avec_anciens_matchs(noms, un_historique)
  IN [score |-> total,
      joueurs_details |-> joueurs_choisis,
      leadership |-> SumSeq([i \in 1..Len(une_equipe) |-> une_equipe[i].leader]),
      individualite |-> SumSeq([i \in 1..Len(une_equipe) |-> une_equipe[i].individualite]),
      condition |-> SumSeq([i \in 1..Len(une_equipe) |-> une_equipe[i].condition])]

score_equipe(une_equipe, un_historique, synergies, anti_synergies) ==
  DetailsEquipe(une_equipe, affecter_postes_optimaux(une_equipe), un_historique, synergies, anti_synergies)

\* combined imbalance of lines 403-407
diff_totale(detailsA, detailsB) ==
  Abs(detailsA.score - detailsB.score)
  + (Abs(detailsA.leadership - detailsB.leadership) * SCALE) \div 2
  + (Abs(detailsA.individualite - detailsB.individualite) * 3 * SCALE) \div 10
  + (Abs(detailsA.condition - detailsB.condition) * 3 * SCALE) \div 10

\* ------------------------------------------------------------------------
\* Inputs: player profiles of the registry file
\* ------------------------------------------------------------------------
Profil(poste, niveau, leader, individualite, condition) ==
  [poste |-> poste, niveau |-> niveau, leader |-> leader,
   individualite |-> individualite, condition |-> condition]

Joueur(nom, profil) ==
  [nom |-> nom, poste |-> profil.poste, niveau |-> profil.niveau,
   leader |-> profil.leader, individualite |-> profil.individualite,
   condition |-> profil.condition]

\* profiles a team of the assignment study is drawn from
Profils ==
  { Profil(<<"gardien">>, <<8>>, 3, 4, 5),
    Profil(<<"defenseur", "milieu">>, <<5, 5>>, 4, 4, 5),
    Profil(<<"milieu", "attaquant">>, <<6, 4>>, 3, 4, 5),
    Profil(<<"milieu", "defenseur", "libero">>, <<2, 2, 2>>, 2, 3, 4) }

\* the registry file joueurs.json read at lines 55-59: players named 1..15
joueurs_data ==
  LET G == Profil(<<"gardien">>, <<8>>, 3, 4, 5)
      E == Profil(<<"milieu", "attaquant">>, <<9, 8>>, 3, 4, 5)
      D == Profil(<<"defenseur", "milieu">>, <<5, 5>>, 4, 4, 5)
      DG == Profil(<<"defenseur", "gardien">>, <<5, 5>>, 4, 4, 5)
      M == Profil(<<"milieu", "attaquant">>, <<6, 4>>, 3, 4, 5)
      F == Profil(<<"attaquant">>, <<4>>, 2, 3, 4)
      profils == <<G, G, E, D, D, D, DG, M, M, M, M, M, F, F, M>>
  IN [n \in 1..Len(profils) |-> Joueur(n, profils[n])]

synergies == << <<4, 8>> >>

anti_synergies == << <<5, 6>> >>

\* request bodies: the list selected_players
Requetes ==
  { <<1, 2, 3, 4, 5, 6, 7, 8, 9, 10, 11, 12, 13, 14>>,
    <<1, 2, 3, 4, 5, 6, 7, 8, 9, 10, 11, 12, 13, 15>>,
    <<1, 2, 3, 4, 5, 6, 7, 8, 9, 10, 11, 12, 13>>,
    <<1, 2, 3, 4, 5, 6, 7, 8, 9, 10, 11, 12, 13, 99>>,
    <<1, 2, 3, 4, 5, 6, 7, 8, 9, 10, 11, 12, 13, 13>> }

\* outcomes of random.shuffle, as orders of the selection taken in registry order
Tirages ==
  { <<1, 2, 3, 4, 5, 6, 7, 8, 9, 10, 11, 12, 13, 14>>,
    <<1, 2, 4, 5, 6, 7, 13, 3, 8, 9, 10, 11, 12, 14>>,
    <<1, 3, 4, 5, 8, 9, 13, 2, 6, 7, 10, 11, 12, 14>>,
    <<1, 2, 8, 9, 10, 11, 13, 3, 4, 5, 6, 7, 12, 14>> }

\* the same, and the third one with its two halves exchanged: the same two
\* teams, so the same imbalance, as another pair
TiragesRecherche ==
  Tirages \cup { <<2, 6, 7, 10, 11, 12, 14, 1, 3, 4, 5, 8, 9, 13>> }

\* ------------------------------------------------------------------------
\* Bounds of the exploration
\* ------------------------------------------------------------------------
\* successful generate calls counted since the history was last empty
MaxAppels == 6

\* history file operations that fail in one run
MaxPannes == 1

\* cap on valid attempts (line 374); the cap on raw trials is 3 times this
max_iterations == 2

\* successful generate calls in the study of the search
MaxRecherches == 2

Procs == {1, 2}

VARIABLES equipe, preferences, walk, apc, comp,
          fichier, pc, joueurs_selected, historique, essais, tentatives_valides,
          meilleur_diff, meilleure, essai, reponse,
          appels, pannes, matchs, valides

avars == <<equipe, preferences, walk, apc, comp>>

locales == <<joueurs_selected, historique, essais, tentatives_valides,
             meilleur_diff, meilleure, essai>>

temoins == <<appels, pannes, matchs>>

\* valides[p]: the valid attempts of the last search of p in the order they
\* were found, each with its combined imbalance and the names of its teams

svars == <<fichier, pc, locales, reponse, temoins, valides>>

vars == <<avars, svars>>

\* ------------------------------------------------------------------------
\* The history file (App.py lines 93-121, 493-500).  Its state is "absent",
\* "tronque" (opened for writing but not completely written) or "liste",
\* and then contenu is the list of name lists it holds.  io is what the
\* file system does to the call.
\* ------------------------------------------------------------------------
IOEcriture == {"ok", "open_echoue", "dump_echoue"}

IOLecture == {"ok", "open_echoue"}

\* effect of open(..., "w") followed by json.dump(contenu)
Absent == [etat |-> "absent", contenu |-> <<>>]

Tronque == [etat |-> "tronque", contenu |-> <<>>]

Liste(contenu) == [etat |-> "liste", contenu |-> contenu]

Ecrire(f, contenu, io) ==
  IF io = "ok" THEN Liste(contenu) ELSE IF io = "open_echoue" THEN f ELSE Tronque

\* os.path.exists at line 95
Existe(f) == f.etat # "absent"

\* lines 96-99, with the handler of lines 109-111
charge_creer(f, io) == [ret |-> <<>>, fichier |-> Ecrire(f, <<>>, io), leve |-> FALSE]

\* lines 101-108, with the handler of lines 109-111
charge_lire(f, io) ==
  [ret |-> IF io = "ok" /\ f.etat = "liste" THEN f.contenu ELSE <<>>,
   fichier |-> f, leve |-> FALSE]

\* Derniers without the slice: the whole list is written
DerniersSansCoupe(h, n) == h

\* Derniers with a slice one entry short
DerniersImpair(h, n) == IF Len(h) <= n - 1 THEN h ELSE SubSeq(h, Len(h) - n + 2, Len(h))

\* historique[-(MAX_HISTORY * 2):]
Derniers(h, n) == IF Len(h) <= n THEN h ELSE SubSeq(h, Len(h) - n + 1, Len(h))

\* sauve_historique without its try/except: a failure reaches the caller
sauve_historique_sans_except(f, h, io) ==
  [fichier |-> Ecrire(f, Derniers(h, MAX_HISTORY * 2), io), leve |-> io # "ok"]

sauve_historique(f, h, io) ==
  [fichier |-> Ecrire(f, Derniers(h, MAX_HISTORY * 2), io), leve |-> FALSE]

\* what charge_historique returns for the file as it is
Persiste == charge_lire(fichier, "ok").ret

\* ------------------------------------------------------------------------
\* generate_teams (App.py lines 342-462), one request per process
\* ------------------------------------------------------------------------
Rep(code, error, a, b, n) ==
  [code |-> code, error |-> error, team_a |-> a, team_b |-> b, tentatives_valides |-> n]

SansReponse == Rep(0, "", <<>>, <<>>, 0)

\* line 358: the registry entries whose name is selected, in registry order
Selection(selected_names) ==
  SelectSeq(joueurs_data, LAMBDA j : InSeq(selected_names, j.nom))

\* the state holds players by name: a name stands for its registry entry
Noms(js) == [i \in 1..Len(js) |-> js[i].nom]

\* line 381: the orders random.shuffle may leave the selected players in
MelangesParmi(noms, tirages) ==
  LET base == Selection(noms)
  IN {[i \in 1..Len(base) |-> base[s[i]]] : s \in tirages}

MelangesDe(noms) == MelangesParmi(noms, Tirages)

\* lines 416-417, on details kept by name
NomsEquipe(details) ==
  [i \in 1..Len(details.joueurs_details) |-> details.joueurs_details[i][1]]

\* the details record with its players held by name
ParNoms(details) ==
  [details EXCEPT !.joueurs_details = [i \in 1..Len(@) |-> <<@[i][1].nom, @[i][2]>>]]

\* line 369 with 0 for the sentinel
meilleur_diff_nul == 0 * SCALE

\* line 369
meilleur_diff_initial == 9999 * SCALE

\* a rejection that comes after the history was loaded
RejeterApresCharge(p, message) ==
  /\ reponse' = [reponse EXCEPT ![p] = Rep(400, message, <<>>, <<>>, 0)]
  /\ fichier' = IF Existe(fichier) THEN fichier ELSE charge_creer(fichier, "ok").fichier
  /\ UNCHANGED <<pc, locales, valides>>

\* lines 356 and 367: the request is rejected
Rejeter(p, message) ==
  /\ reponse' = [reponse EXCEPT ![p] = Rep(400, message, <<>>, <<>>, 0)]
  /\ UNCHANGED <<pc, locales, fichier, valides>>

\* lines 350-371: validation of the request, then the initial locals
Recevoir(p) ==
  /\ pc[p] = "idle"
  /\ appels < MaxAppels
  /\ \E selected_names \in Requetes :
       IF Len(selected_names) # 14
       THEN Rejeter(p, "joueurs au lieu de 14")
       ELSE IF Len(Selection(selected_names)) # 14
       THEN Rejeter(p, "Joueurs invalides")
       ELSE /\ joueurs_selected' = [joueurs_selected EXCEPT ![p] = Noms(Selection(selected_names))]
            /\ meilleur_diff' = [meilleur_diff EXCEPT ![p] = meilleur_diff_initial]
            /\ meilleure' = [meilleure EXCEPT ![p] = <<>>]
            /\ historique' = [historique EXCEPT ![p] = <<>>]
            /\ essais' = [essais EXCEPT ![p] = 0]
            /\ tentatives_valides' = [tentatives_valides EXCEPT ![p] = 0]
            /\ essai' = [essai EXCEPT ![p] = "aucun"]
            /\ reponse' = [reponse EXCEPT ![p] = SansReponse]
            /\ pc' = [pc EXCEPT ![p] = "charge"]
            /\ valides' = [valides EXCEPT ![p] = <<>>]
            /\ UNCHANGED fichier
  /\ UNCHANGED <<temoins, avars>>

\* line 95: the test that picks the branch of charge_historique
ChargeExiste(p) ==
  /\ pc[p] = "charge"
  /\ pc' = [pc EXCEPT ![p] = IF Existe(fichier) THEN "lire" ELSE "creer"]
  /\ UNCHANGED <<fichier, locales, reponse, temoins, valides, avars>>

\* the rest of line 372, once charge_historique has chosen its branch
ChargeFin(p, ios) ==
  /\ pc[p] \in {"lire", "creer"}
  /\ \E io \in (IF pc[p] = "lire" THEN IOLecture ELSE IOEcriture) \cap ios :
       LET r == IF pc[p] = "lire" THEN charge_lire(fichier, io) ELSE charge_creer(fichier, io)
       IN /\ io # "ok" => pannes < MaxPannes
          /\ pannes' = IF io # "ok" THEN pannes + 1 ELSE pannes
          /\ fichier' = r.fichier
          /\ IF r.leve
             THEN /\ reponse' = [reponse EXCEPT ![p] = Rep(500, "exception", <<>>, <<>>, 0)]
                  /\ pc' = [pc EXCEPT ![p] = "idle"]
                  /\ UNCHANGED historique
             ELSE /\ historique' = [historique EXCEPT ![p] = r.ret]
                  /\ pc' = [pc EXCEPT ![p] = "loop"]
                  /\ UNCHANGED reponse
  /\ UNCHANGED <<joueurs_selected, essais, tentatives_valides, meilleur_diff, meilleure, essai>>
  /\ UNCHANGED <<appels, matchs, valides, avars>>

\* the loop without the test of line 378
BoucleContinueSansPlafond(n_essais, n_valides) == n_essais < max_iterations * 3

\* lines 377-379: the loop goes on
BoucleContinue(n_essais, n_valides) ==
  n_essais < max_iterations * 3 /\ n_valides < max_iterations

\* Retenir with <= for the test of line 409: an equal pair replaces the best
RetenirEgal(detailsA, detailsB, diff, diff0, best0) ==
  IF diff <= diff0
  THEN [meilleur_diff |-> diff, meilleure |-> <<ParNoms(detailsA), ParNoms(detailsB)>>,
        diff_totale |-> diff]
  ELSE [meilleur_diff |-> diff0, meilleure |-> best0, diff_totale |-> diff]

\* lines 409-411: the pair is kept when it improves on the best
Retenir(detailsA, detailsB, diff, diff0, best0) ==
  IF diff < diff0
  THEN [meilleur_diff |-> diff, meilleure |-> <<ParNoms(detailsA), ParNoms(detailsB)>>,
        diff_totale |-> diff]
  ELSE [meilleur_diff |-> diff0, meilleure |-> best0, diff_totale |-> diff]

\* lines 400-411
Comparer(detailsA, detailsB, diff0, best0) ==
  Retenir(detailsA, detailsB, diff_totale(detailsA, detailsB), diff0, best0)

\* the requests that pass the validation of lines 354-367
RequetesValides == {r \in Requetes : Len(r) = 14 /\ Len(Selection(r)) = 14}

\* the teams a trial can draw: the two halves of every order of the players
EquipesTirees ==
  UNION {{SubSeq(js, 1, TEAM_SIZE), SubSeq(js, TEAM_SIZE + 1, Len(js))} :
           js \in UNION {MelangesParmi(r, TiragesRecherche) : r \in RequetesValides}}

\* lines 385-398 for one team: none of it depends on the history but the
\* penalty of line 334, so it is computed once for every team
Fiche(e) ==
  [contraintes |-> verifier_contraintes(e)[1],
   complementarite |-> verifier_contraintes_complementarite(affecter_postes_optimaux(e))[1],
   details |-> score_equipe(e, <<>>, synergies, anti_synergies)]

Fiches == [e \in EquipesTirees |-> Fiche(e)]

\* score_equipe(equipe, h, ...) from the details on an empty history
AvecHistorique(details, h) ==
  [details EXCEPT !.score = @ - similarite_avec_anciens_matchs(
                                  [i \in 1..Len(details.joueurs_details) |->
                                     details.joueurs_details[i][1].nom], h)]

\* lines 382-411: what one trial on the shuffled players js makes of the
\* locals (valid attempts nv, best difference diff0, best pair best0)
UnEssai(js, h, nv, diff0, best0) ==
  LET equipe_A == SubSeq(js, 1, TEAM_SIZE)
      equipe_B == SubSeq(js, TEAM_SIZE + 1, Len(js))
      Sans(raison) == [essai |-> raison, tentatives_valides |-> nv,
                       meilleur_diff |-> diff0, meilleure |-> best0, trouve |-> <<>>]
      Avec(r) == [essai |-> "valide", tentatives_valides |-> nv + 1,
                  meilleur_diff |-> r.meilleur_diff, meilleure |-> r.meilleure,
                  trouve |-> <<[diff_totale |-> r.diff_totale,
                                team_a |-> NomsEquipe(ParNoms(Fiches[equipe_A].details)),
                                team_b |-> NomsEquipe(ParNoms(Fiches[equipe_B].details))]>>]
  IN IF ~(Fiches[equipe_A].contraintes /\ Fiches[equipe_B].contraintes)
     THEN Sans("effectif")
     ELSE IF ~(Fiches[equipe_A].complementarite /\ Fiches[equipe_B].complementarite)
     THEN Sans("complementarite")
     ELSE Avec(Comparer(AvecHistorique(Fiches[equipe_A].details, h),
                        AvecHistorique(Fiches[equipe_B].details, h),
                        diff0, best0))

\* lines 377-411: one more iteration of the loop, the shuffle being one of tirages
EssaiParmi(p, tirages) ==
  /\ pc[p] = "loop"
  /\ BoucleContinue(essais[p], tentatives_valides[p])
  /\ essais' = [essais EXCEPT ![p] = @ + 1]
  /\ \E js \in MelangesParmi(joueurs_selected[p], tirages) :
       \E r \in {UnEssai(js, historique[p], tentatives_valides[p],
                         meilleur_diff[p], meilleure[p])} :
          /\ joueurs_selected' = [joueurs_selected EXCEPT ![p] = Noms(js)]
          /\ essai' = [essai EXCEPT ![p] = r.essai]
          /\ tentatives_valides' = [tentatives_valides EXCEPT ![p] = r.tentatives_valides]
          /\ meilleur_diff' = [meilleur_diff EXCEPT ![p] = r.meilleur_diff]
          /\ meilleure' = [meilleure EXCEPT ![p] = r.meilleure]
          /\ valides' = [valides EXCEPT ![p] = @ \o r.trouve]
  /\ UNCHANGED <<fichier, pc, historique, reponse, temoins, avars>>

Essai(p) == EssaiParmi(p, Tirages)

\* the return of generate_teams: its locals end with the call
Retour(p) ==
  /\ joueurs_selected' = [joueurs_selected EXCEPT ![p] = <<>>]
  /\ historique' = [historique EXCEPT ![p] = <<>>]
  /\ essais' = [essais EXCEPT ![p] = 0]
  /\ tentatives_valides' = [tentatives_valides EXCEPT ![p] = 0]
  /\ meilleur_diff' = [meilleur_diff EXCEPT ![p] = 0]
  /\ meilleure' = [meilleure EXCEPT ![p] = <<>>]
  /\ essai' = [essai EXCEPT ![p] = "aucun"]

\* lines 413-459: after the loop
Terminer(p, ios) ==
  /\ pc[p] = "loop"
  /\ ~BoucleContinue(essais[p], tentatives_valides[p])
  /\ pc' = [pc EXCEPT ![p] = "idle"]
  /\ IF meilleure[p] = <<>>
     THEN /\ reponse' = [reponse EXCEPT ![p] = Rep(400, "Aucune combinaison valide", <<>>, <<>>, 0)]
          /\ UNCHANGED <<fichier, appels, pannes, matchs>>
     ELSE
       \E io \in IOEcriture \cap ios :
         LET equipe_A_noms == NomsEquipe(meilleure[p][1])
             equipe_B_noms == NomsEquipe(meilleure[p][2])
             h == Append(Append(historique[p], equipe_A_noms), equipe_B_noms)
             r == sauve_historique(fichier, h, io)
         IN /\ io # "ok" => pannes < MaxPannes
            /\ pannes' = IF io # "ok" THEN pannes + 1 ELSE pannes
            /\ fichier' = r.fichier
            /\ IF r.leve
               THEN /\ reponse' = [reponse EXCEPT ![p] = Rep(500, "exception", <<>>, <<>>, 0)]
                    /\ UNCHANGED <<appels, matchs>>
               ELSE /\ reponse' = [reponse EXCEPT ![p] =
                          Rep(200, "", equipe_A_noms, equipe_B_noms, tentatives_valides[p])]
                    /\ appels' = appels + 1
                    /\ matchs' = matchs \cup {<<equipe_A_noms, equipe_B_noms>>}
  /\ Retour(p)
  /\ UNCHANGED <<valides, avars>>

\* clear_history (lines 493-500)
Effacer ==
  /\ \A p \in Procs : pc[p] = "idle"
  /\ \E io \in IOEcriture :
       /\ io # "ok" => pannes < MaxPannes
       /\ pannes' = IF io # "ok" THEN pannes + 1 ELSE pannes
       /\ fichier' = Ecrire(fichier, <<>>, io)
       /\ appels' = IF charge_lire(Ecrire(fichier, <<>>, io), "ok").ret = <<>> THEN 0 ELSE appels
  /\ UNCHANGED <<pc, locales, reponse, matchs, valides, avars>>

ServeurInit ==
  /\ fichier \in {Absent, Liste(<<>>)}
  /\ pc = [p \in Procs |-> "idle"]
  /\ joueurs_selected = [p \in Procs |-> <<>>]
  /\ historique = [p \in Procs |-> <<>>]
  /\ essais = [p \in Procs |-> 0]
  /\ tentatives_valides = [p \in Procs |-> 0]
  /\ meilleur_diff = [p \in Procs |-> 0]
  /\ meilleure = [p \in Procs |-> <<>>]
  /\ essai = [p \in Procs |-> "aucun"]
  /\ reponse = [p \in Procs |-> SansReponse]
  /\ appels = 0
  /\ pannes = 0
  /\ matchs = {}
  /\ valides = [p \in Procs |-> <<>>]

AssignRepos ==
  /\ equipe = <<>>
  /\ preferences = <<>>
  /\ walk = WalkInit
  /\ apc = "repos"
  /\ comp = <<>>

\* requests handled one at a time by a single thread
Init == ServeurInit /\ AssignRepos

Next ==
  \/ Recevoir(1)
  \/ ChargeExiste(1)
  \/ ChargeFin(1, IOEcriture)
  \/ Essai(1)
  \/ Terminer(1, IOEcriture)
  \/ Effacer

Spec == Init /\ [][Next]_vars

\* one request per thread, handled concurrently, the file system never failing
NextConc ==
  \E p \in Procs :
    \/ reponse[p] = SansReponse /\ Recevoir(p)
    \/ ChargeExiste(p)
    \/ ChargeFin(p, {"ok"})
    \/ Essai(p)
    \/ Terminer(p, {"ok"})

SpecConc == Init /\ [][NextConc]_vars

\* the search of generate_teams over shuffles that give two different pairs
\* the same imbalance, requests handled one at a time, the file system never
\* failing
NextRecherche ==
  \/ appels < MaxRecherches /\ Recevoir(1)
  \/ ChargeExiste(1)
  \/ ChargeFin(1, {"ok"})
  \/ EssaiParmi(1, TiragesRecherche)
  \/ Terminer(1, {"ok"})

SpecRecherche == Init /\ [][NextRecherche]_vars

\* ------------------------------------------------------------------------
\* Study of one call of affecter_postes_optimaux followed by the
\* complementarity check, on a team of TEAM_SIZE players with distinct names
\* ------------------------------------------------------------------------
AssignInit ==
  /\ equipe \in {[i \in 1..TEAM_SIZE |-> Joueur(i, f[i])] : f \in [1..TEAM_SIZE -> Profils]}
  /\ preferences = SortPreferences(BuildPreferences(equipe))
  /\ walk = WalkInit
  /\ apc = "walk"
  /\ comp = <<>>
  /\ ServeurInit
  /\ fichier = Absent

AssignStep ==
  /\ apc = "walk"
  /\ ~WalkDone(walk, preferences)
  /\ walk' = WalkStep(walk, preferences, equipe)
  /\ UNCHANGED <<equipe, preferences, apc, comp, svars>>

AssignReturn ==
  /\ apc = "walk"
  /\ WalkDone(walk, preferences)
  /\ apc' = "check"
  /\ UNCHANGED <<equipe, preferences, walk, comp, svars>>

AssignCheck ==
  /\ apc = "check"
  /\ comp' = verifier_contraintes_complementarite(walk.joueurs_assignes)
  /\ apc' = "done"
  /\ UNCHANGED <<equipe, preferences, walk, svars>>

AssignNext == AssignStep \/ AssignReturn \/ AssignCheck

SpecAssign == AssignInit /\ [][AssignNext]_vars

\* ------------------------------------------------------------------------
\* Properties
\* ------------------------------------------------------------------------
Min(a, b) == IF a < b THEN a ELSE b

\* the registry entries of a list of names, in the order of the list
Joueurs(noms) ==
  [i \in 1..Len(noms) |->
     joueurs_data[CHOOSE k \in 1..Len(joueurs_data) : joueurs_data[k].nom = noms[i]]]

\* process p ends a request with a success in this step
Reussit(p) == pc[p] = "loop" /\ pc'[p] = "idle" /\ reponse'[p].code = 200

\* the persisted history ends with the two teams of the response of p
FinitPar(h, rep) ==
  /\ Len(h) >= 2
  /\ h[Len(h) - 1] = rep.team_a
  /\ h[Len(h)] = rep.team_b

Contient(h, rep) ==
  \E k \in 1..(Len(h) - 1) : h[k] = rep.team_a /\ h[k + 1] = rep.team_b

\* C2: when two concurrent generate requests have both succeeded, the
\* persisted history holds the pair of teams of each of them.
C2_AucuneMiseAJourPerdue ==
  (\A p \in Procs : pc[p] = "idle" /\ reponse[p].code = 200)
    => \A p \in Procs : Contient(Persiste, reponse[p])

\* the two teams of the last trial of p
EquipeA(p) == Joueurs(SubSeq(joueurs_selected[p], 1, TEAM_SIZE))

EquipeB(p) == Joueurs(SubSeq(joueurs_selected[p], TEAM_SIZE + 1, Len(joueurs_selected[p])))

\* C3: in every trial counted as a valid attempt the assignment of each team
\* covers its 7 players, and so do the pair kept as best and the pair returned.
C3_CouvertureComplete ==
  \A p \in Procs :
    /\ essai[p] = "valide" =>
         /\ Len(affecter_postes_optimaux(EquipeA(p))) = TEAM_SIZE
         /\ Len(affecter_postes_optimaux(EquipeB(p))) = TEAM_SIZE
    /\ meilleure[p] # <<>> =>
         /\ Len(meilleure[p][1].joueurs_details) = TEAM_SIZE
         /\ Len(meilleure[p][2].joueurs_details) = TEAM_SIZE
    /\ reponse[p].code = 200 =>
         /\ Len(reponse[p].team_a) = TEAM_SIZE
         /\ Len(reponse[p].team_b) = TEAM_SIZE

\* process p leaves the trial loop in this step
SortDeBoucle(p) == pc[p] = "loop" /\ pc'[p] = "idle"

SansPartition(noms) ==
  LET nb_elite == CountCat(Joueurs(noms), "elite")
      nb_faible == CountCat(Joueurs(noms), "faible")
  IN \/ nb_elite < 2 * CONTRAINTES.elite_min \/ nb_elite > 2 * CONTRAINTES.elite_max
     \/ nb_faible < 2 * CONTRAINTES.faible_min \/ nb_faible > 2 * CONTRAINTES.faible_max

BornesBoucle ==
  \A p \in Procs :
    /\ essais[p] <= 3 * max_iterations
    /\ tentatives_valides[p] <= max_iterations

PasDeBoucle ==
  \A p \in Procs :
    /\ (pc[p] = "loop" /\ pc'[p] = "loop"
          /\ <<joueurs_selected[p], essais[p], tentatives_valides[p], meilleure[p]>>
               # <<joueurs_selected'[p], essais'[p], tentatives_valides'[p], meilleure'[p]>>) =>
         /\ tentatives_valides[p] < max_iterations /\ essais[p] < 3 * max_iterations
         /\ essais'[p] = essais[p] + 1
    /\ SortDeBoucle(p) =>
         /\ tentatives_valides[p] = max_iterations \/ essais[p] = 3 * max_iterations
         /\ reponse'[p].code \in {200, 400}
         /\ SansPartition(joueurs_selected[p]) =>
              /\ reponse'[p] = Rep(400, "Aucune combinaison valide", <<>>, <<>>, 0)
              /\ essais[p] = 3 * max_iterations
              /\ tentatives_valides[p] = 0

\* C5: the trial loop is bounded: every iteration counts as one more raw
\* trial and runs only while valid attempts < max_iterations and raw trials
\* < 3*max_iterations, so neither counter ever passes its cap; the loop is left
\* only once a cap is reached, with a response and not an exception; and a
\* selection without a valid partition ends in the failure response after
\* exactly 3*max_iterations raw trials and no valid attempt.
C5_BoucleTermine ==
  /\ []BornesBoucle
  /\ [][PasDeBoucle]_vars

C5_Temoin ==
  /\ pc[1] = "loop"
  /\ SansPartition(joueurs_selected[1])
  /\ essais[1] = 3 * max_iterations /\ tentatives_valides[1] = 0
  /\ ~BoucleContinue(essais[1], tentatives_valides[1])

\* C6: the persisted history has at most 2*MAX_HISTORY entries, an even
\* number of them, and its entries 2k-1 and 2k are team A and team B of one
\* generated match.
C6_HistoriqueParPaires ==
  /\ Len(Persiste) <= 2 * MAX_HISTORY
  /\ Len(Persiste) % 2 = 0
  /\ \A k \in 1..(Len(Persiste) \div 2) : <<Persiste[2 * k - 1], Persiste[2 * k]>> \in matchs

C6_Temoin ==
  /\ Len(Persiste) = 2 * MAX_HISTORY
  /\ Cardinality(matchs) >= 2
  /\ pannes > 0
  /\ Persiste[1] # Persiste[3]

\* C7: a request rejected by the validation gets a client error and the
\* history file is left as it was, not even created.
C7_RejetSansEffet ==
  [][\A p \in Procs :
       (pc[p] = "idle" /\ reponse'[p] # reponse[p]
          /\ reponse'[p].error \in {"joueurs au lieu de 14", "Joueurs invalides"}) =>
         /\ reponse'[p].code = 400
         /\ pc'[p] = "idle"
         /\ fichier' = fichier
         /\ historique'[p] = historique[p]]_vars

C7_Temoin ==
  /\ reponse[1].code = 400 /\ reponse[1].error = "Joueurs invalides"
  /\ fichier = Absent

\* C8: a failure while the history is loaded gives the request an empty
\* history and the request goes on to its trials; a failure while the history
\* is saved leaves the response a success carrying the computed pair.
C8_PannesAbsorbees ==
  [][\A p \in Procs :
       /\ (pc[p] \in {"lire", "creer"} /\ pc'[p] # pc[p] /\ pannes' # pannes) =>
            /\ historique'[p] = <<>>
            /\ pc'[p] = "loop"
       /\ (SortDeBoucle(p) /\ pannes' # pannes) =>
            reponse'[p] = Rep(200, "", NomsEquipe(meilleure[p][1]),
                              NomsEquipe(meilleure[p][2]), tentatives_valides[p])]_vars

C8_Temoin ==
  /\ pc[1] = "idle" /\ reponse[1].code = 200 /\ pannes > 0
  /\ ~FinitPar(Persiste, reponse[1])
  /\ fichier.etat = "tronque"

NbAssignes(w, poste) ==
  Cardinality({k \in 1..Len(w.joueurs_assignes) : w.joueurs_assignes[k][2] = poste})

\* C9: at every step of the walk no player is assigned twice, no position
\* holds more players than COMPOSITION allows, and every player is assigned
\* to a position of their own list.
C9_AffectationCoherente ==
  /\ \A i, k \in 1..Len(walk.joueurs_assignes) :
       walk.joueurs_assignes[i][1].nom = walk.joueurs_assignes[k][1].nom => i = k
  /\ \A k \in 1..Len(walk.joueurs_assignes) :
       /\ walk.joueurs_assignes[k][2] \in DOMAIN COMPOSITION
       /\ NbAssignes(walk, walk.joueurs_assignes[k][2]) <= COMPOSITION[walk.joueurs_assignes[k][2]]
       /\ InSeq(walk.joueurs_assignes[k][1].poste, walk.joueurs_assignes[k][2])

C9_Temoin ==
  /\ apc = "done"
  /\ Len(walk.joueurs_assignes) = TEAM_SIZE
  /\ \E k \in 1..TEAM_SIZE :
       walk.joueurs_assignes[k][2] # walk.joueurs_assignes[k][1].poste[1]

\* C10: the complementarity check passes only if no position other than
\* goalkeeper holds more than one player scoring at most 7.5, the defenders'
\* scores sum to at least 14 and the midfielders' to at least 20; the reason
\* reported is the first failing check in the order weak position, defense,
\* midfield.
C10_VerdictComplementarite ==
  apc = "done" =>
    LET ja == walk.joueurs_assignes
        faible == \E poste \in {ja[k][2] : k \in 1..Len(ja)} \ {"gardien"} :
                     NbFaiblesPoste(ScoresAuPoste(ja, poste)) > 1
        defense == SumSeq(ScoresAuPoste(ja, "defenseur")) >= 14 * SCALE
        milieu == SumSeq(ScoresAuPoste(ja, "milieu")) >= 20 * SCALE
    IN /\ comp[1] => (~faible /\ defense /\ milieu)
       /\ faible => comp[2] = "Poste trop faible"
       /\ (~faible /\ ~defense) => comp[2] = "Defense insuffisante"
       /\ (~faible /\ defense /\ ~milieu) => comp[2] = "Milieu insuffisant"

\* the first valid attempt of a search with the smallest imbalance
PremierMinimum(v) ==
  CHOOSE k \in 1..Len(v) :
    /\ \A m \in 1..Len(v) : v[k].diff_totale <= v[m].diff_totale
    /\ \A m \in 1..(k - 1) : v[k].diff_totale < v[m].diff_totale

\* C11: when generate returns a pair, its imbalance is the smallest of all the
\* valid attempts of the search and, among the attempts with that imbalance,
\* the pair is the first one found; all along the search the best pair kept
\* is that attempt.
C11_MeilleurePremiereTrouvee ==
  [][\A p \in Procs :
       /\ (pc'[p] = "loop" /\ valides'[p] # <<>>) =>
            /\ Len(valides'[p]) = tentatives_valides'[p]
            /\ meilleur_diff'[p] = valides'[p][PremierMinimum(valides'[p])].diff_totale
            /\ NomsEquipe(meilleure'[p][1]) = valides'[p][PremierMinimum(valides'[p])].team_a
            /\ NomsEquipe(meilleure'[p][2]) = valides'[p][PremierMinimum(valides'[p])].team_b
       /\ (SortDeBoucle(p) /\ reponse'[p].code = 200) =>
            /\ valides[p] # <<>>
            /\ reponse'[p].team_a = valides[p][PremierMinimum(valides[p])].team_a
            /\ reponse'[p].team_b = valides[p][PremierMinimum(valides[p])].team_b]_vars

\* a search that found a pair and later another pair of the same, smallest,
\* imbalance has returned the first of the two
C11_Temoin ==
  /\ pc[1] = "idle" /\ reponse[1].code = 200
  /\ \E k, m \in 1..Len(valides[1]) :
       /\ k < m
       /\ k = PremierMinimum(valides[1])
       /\ valides[1][m].diff_totale = valides[1][k].diff_totale
       /\ valides[1][m].team_a # valides[1][k].team_a
       /\ reponse[1].team_a = valides[1][k].team_a
       /\ reponse[1].team_b = valides[1][k].team_b
       /\ Len(Persiste) = 2 * MaxRecherches

====
